---- MODULE Spec2Model ----
(***************************************************************************)
(* A model of the content optimizer's metrics hub (src/milestone3.py) and  *)
(* of its rule-based text optimizer (src/gen_content_optimization.py).     *)
(*                                                                         *)
(* Text is a sequence of one-character strings.  A Python float that the   *)
(* code obtains by dividing two integers is the exact rational             *)
(* [n |-> numerator, d |-> denominator] with d > 0: for the integers of    *)
(* this model the correctly rounded quotient orders and compares as the    *)
(* rational does.  A float that went through round(x, 4) is an integer     *)
(* number of ten-thousandths.                                              *)
(***************************************************************************)
EXTENDS Integers, Sequences, FiniteSets, TLC

VARIABLES
    metricsFile,    \* milestone3_metrics.csv: [exists, lines]
    last,           \* what the menu handler that ran last returned and printed
    pc,             \* "menu" | "exit" | "crash" for the menu loop; "call" | "return" for one function call
    call,           \* the function call under study: its name and arguments
    result          \* the value that call returned

vars == <<metricsFile, last, pc, call, result>>

(***************************************************************************)
(* Bounds of the model.                                                    *)
(***************************************************************************)
MaxRows == 2        \* lines of the metrics file that are not the header row
MaxImp == 2         \* largest impressions value of a function call
MaxCount == 2       \* largest clicks value of an A/B counter group
MaxLikes == 1       \* largest likes and comments value
MaxClicks == 5      \* largest clicks value of an append_metrics_row call
MaxPct == 16        \* largest ctr and engagement rate of an alert call, in hundredths
MaxLen == 6         \* longest text handed to limit_hashtags
MaxCap == 2         \* largest cap handed to limit_hashtags
MaxTags == 4        \* most hashtags in a post handed to optimize_content
Slack == 1          \* how far the word counts go around 0, MIN_WORDS, MAX_WORDS
MaxTokens == 5      \* most tokens in a text handed to the lexicon analyze_sentiment
MaxCalls == 2       \* most append_metrics_row calls of one of two concurrent processes
MaxBatch == 2       \* most rows of the CSV file optimize_csv runs over

(***************************************************************************)
(* Characters and strings.                                                 *)
(***************************************************************************)
LowerLetters == <<"a","b","c","d","e","f","g","h","i","j","k","l","m","n","o","p","q","r","s","t","u","v","w","x","y","z">>
UpperLetters == <<"A","B","C","D","E","F","G","H","I","J","K","L","M","N","O","P","Q","R","S","T","U","V","W","X","Y","Z">>
Digits == {"0","1","2","3","4","5","6","7","8","9"}

Range(s) == {s[i] : i \in 1..Len(s)}
LowerSet == Range(LowerLetters)
UpperSet == Range(UpperLetters)
WordChars == LowerSet \cup UpperSet \cup Digits \cup {"_"}
SpaceChars == {" ", "\t", "\n"}

\* str.isspace / regex \s on the characters of the model
IsSpace(c) == c \in SpaceChars

\* regex \w
IsWord(c) == c \in WordChars

\* str.lower() on one character
LowerChar(c) ==
    IF c \in UpperSet
    THEN LowerLetters[CHOOSE i \in 1..26 : UpperLetters[i] = c]
    ELSE c

\* str.upper() on one character
UpperChar(c) ==
    IF c \in LowerSet
    THEN UpperLetters[CHOOSE i \in 1..26 : LowerLetters[i] = c]
    ELSE c

\* str.lower()
Lower(t) == [i \in 1..Len(t) |-> LowerChar(t[i])]

RECURSIVE CatRange(_, _, _)
\* f[lo] \o f[lo + 1] \o ... \o f[hi], for f a function to sequences
CatRange(f, lo, hi) ==
    IF lo > hi THEN <<>>
    ELSE IF lo = hi THEN f[lo]
    ELSE LET mid == (lo + hi) \div 2
         IN  CatRange(f, lo, mid) \o CatRange(f, mid + 1, hi)

\* the first index >= i of t that holds a whitespace character, or Len(t) + 1
TokenEnd(t, i) ==
    CHOOSE j \in i..(Len(t) + 1) :
        /\ j = Len(t) + 1 \/ IsSpace(t[j])
        /\ \A k \in i..(j - 1) : ~IsSpace(t[k])

\* str.split(): the maximal runs of non-whitespace characters, in order
Split(t) ==
    CatRange([i \in 1..Len(t) |->
                IF ~IsSpace(t[i]) /\ (i = 1 \/ IsSpace(t[i - 1]))
                THEN <<SubSeq(t, i, TokenEnd(t, i) - 1)>>
                ELSE <<>>],
             1, Len(t))

\* str.strip()
Strip(t) ==
    LET nonspace == {i \in 1..Len(t) : ~IsSpace(t[i])}
        first == CHOOSE i \in nonspace : \A j \in nonspace : i <= j
        final == CHOOSE i \in nonspace : \A j \in nonspace : j <= i
    IN  IF nonspace = {} THEN <<>> ELSE SubSeq(t, first, final)

(***************************************************************************)
(* Numbers.                                                                *)
(***************************************************************************)
Max(a, b) == IF a >= b THEN a ELSE b

Rat(n, d) == [n |-> n, d |-> d]

\* Python's int / int: ZeroDivisionError is the value with d = 0
ZeroDivisionError == Rat(0, 0)
TrueDiv(n, d) ==
    IF d = 0 THEN ZeroDivisionError
    ELSE IF d < 0 THEN Rat(0 - n, 0 - d)
    ELSE Rat(n, d)

RatLT(a, b) == a.n * b.d < b.n * a.d
RatLE(a, b) == a.n * b.d <= b.n * a.d

\* Python's float is a binary double: a / b is the quotient rounded to 53
\* significant bits.  DoubleError(a, b) is the sign of float(a / b) - a / b for
\* integers a, b >= 1 (b below 2^15): with v = a / b scaled by the power of
\* two that puts it in [2^52, 2^53), the double is v rounded to an integer,
\* and the remainder of the scaled division tells which way (a remainder of
\* exactly b / 2 takes a b of 2^22 or more).
DoubleError(a, b) ==
    LET t == IF a >= b
             THEN 0 - (CHOOSE k \in 0..31 : b * 2^k <= a /\ a < b * 2^(k + 1))
             ELSE CHOOSE k \in 1..31 : b <= a * 2^k /\ a * 2^k < 2 * b
        pow[e \in 0..84] ==
            IF e = 0 THEN 1 % b
            ELSE IF e % 2 = 0 THEN (pow[e \div 2] * pow[e \div 2]) % b
            ELSE (2 * pow[e - 1]) % b
        rem == ((a % b) * pow[52 + t]) % b
    IN  IF rem = 0 THEN 0
        ELSE IF 2 * rem < b THEN 0 - 1
        ELSE 1

\* round(x, digits) of the double x = r.n / r.d (r.d >= 1), in units of
\* 1 / scale, scale = 10^digits.  round gives the multiple of 1 / scale that
\* is nearest to the double: when the quotient itself lies half-way between
\* two of them, the double lies on the side DoubleError tells, and only a
\* double that is exactly half-way goes to the even one.
RoundTo(r, scale) ==
    LET sign == IF r.n < 0 THEN 0 - 1 ELSE 1
        num == scale * sign * r.n
        q == num \div r.d
        rem == num % r.d
        err == DoubleError(2 * q + 1, 2 * scale)
    IN  sign * (IF 2 * rem < r.d THEN q
                ELSE IF 2 * rem > r.d THEN q + 1
                ELSE IF err < 0 THEN q
                ELSE IF err > 0 THEN q + 1
                ELSE IF q % 2 = 0 THEN q ELSE q + 1)

\* round(x, 4), in ten-thousandths
Round4(r) == RoundTo(r, 10000)

(***************************************************************************)
(* src/milestone3.py: configuration.                                       *)
(***************************************************************************)
POSITIVE_WORDS ==
    { <<"g","r","e","a","t">>,
      <<"g","o","o","d">>,
      <<"l","o","v","e">>,
      <<"a","m","a","z","i","n","g">>,
      <<"e","x","c","e","l","l","e","n","t">>,
      <<"n","i","c","e">>,
      <<"w","o","w">>,
      <<"s","u","p","e","r">>,
      <<"f","a","n","t","a","s","t","i","c">>,
      <<"a","w","e","s","o","m","e">>,
      <<"h","a","p","p","y">> }

NEGATIVE_WORDS ==
    { <<"b","a","d">>,
      <<"h","a","t","e">>,
      <<"p","o","o","r">>,
      <<"t","e","r","r","i","b","l","e">>,
      <<"w","o","r","s","t">>,
      <<"b","o","r","i","n","g">>,
      <<"a","w","f","u","l">>,
      <<"a","n","g","r","y">>,
      <<"s","a","d">>,
      <<"d","i","s","a","p","p","o","i","n","t","i","n","g">> }

(***************************************************************************)
(* The metrics file.  A line is a sequence of cells; a cell is what the    *)
(* csv module wrote or reads back: a string (s), a text (c, a character    *)
(* sequence), an integer (n), a rounded float (n, in ten-thousandths), or  *)
(* the timestamp.  NoneCell is the None csv.DictReader gives for a column  *)
(* the line is too short to hold.                                          *)
(***************************************************************************)
Cell(t, n, s, c) == [t |-> t, n |-> n, s |-> s, c |-> c]
Str(s) == Cell("str", 0, s, <<>>)
TextCell(c) == Cell("text", 0, "", c)
IntCell(n) == Cell("int", n, "", <<>>)
FloatCell(n) == Cell("float", n, "", <<>>)
TimeCell == Cell("time", 0, "", <<>>)
NoneCell == Cell("none", 0, "", <<>>)

\* the header row written at lines 37-53
METRICS_HEADER ==
    << Str("timestamp"), Str("post_id"), Str("variant"), Str("text"),
       Str("sentiment_score"), Str("sentiment_label"), Str("impressions"),
       Str("clicks"), Str("likes"), Str("comments"), Str("ctr"),
       Str("engagement_rate"), Str("ab_test_id"), Str("ab_winner"),
       Str("ab_reason") >>

\* the column of the header row that holds a name
Col(name) == CHOOSE i \in 1..Len(METRICS_HEADER) : METRICS_HEADER[i] = Str(name)

AbsentFile == [exists |-> FALSE, lines |-> <<>>]

\* a variant that writes the header whether or not the file exists
init_metrics_file_always(file) ==
    [exists |-> TRUE, lines |-> <<METRICS_HEADER>>]

\* init_metrics_file_if_needed: the header is written only when no file exists
init_metrics_file_if_needed(file) ==
    IF ~file.exists
    THEN [exists |-> TRUE, lines |-> <<METRICS_HEADER>>]
    ELSE file

\* None, the default of ab_test_id, ab_winner and ab_reason
None == "<None>"

\* x or ""
OrEmpty(x) == IF x = None THEN "" ELSE x

\* a variant that leaves impressions as given
clamp_impressions_none(impressions) == impressions

\* impressions = max(1, impressions)
clamp_impressions(impressions) == Max(1, impressions)

\* append_metrics_row: the file after the call, and the (ctr, eng) returned.
\* status is "ok", or the exception that ended the call.
append_metrics_row(file, post_id, variant, text, impressions, clicks, likes, comments, sentiment_score, sentiment_label, ab_test_id, ab_winner, ab_reason) ==
    LET f == init_metrics_file_if_needed(file)
        imp == clamp_impressions(impressions)
        ctr == TrueDiv(clicks, imp)
        eng == TrueDiv(likes + comments, imp)
    IN  IF imp = 0
        THEN [file |-> f, status |-> "ZeroDivisionError",
              ctr |-> ZeroDivisionError, eng |-> ZeroDivisionError]
        ELSE [file |->
                [exists |-> TRUE,
                 lines |-> Append(f.lines,
                    << TimeCell, Str(post_id), Str(variant), TextCell(text),
                       FloatCell(Round4(sentiment_score)), Str(sentiment_label),
                       IntCell(imp), IntCell(clicks), IntCell(likes),
                       IntCell(comments), FloatCell(Round4(ctr)),
                       FloatCell(Round4(eng)), Str(OrEmpty(ab_test_id)),
                       Str(OrEmpty(ab_winner)), Str(OrEmpty(ab_reason)) >>)],
              status |-> "ok", ctr |-> ctr, eng |-> eng]

(***************************************************************************)
(* Sentiment analysis with the fixed lexicon.                              *)
(***************************************************************************)
\* the thresholds taken inclusive: score >= 0.2, score <= -0.2
analyze_sentiment_inclusive(text) ==
    LET tokens == Split(Lower(text))
        pos == Cardinality({i \in 1..Len(tokens) : tokens[i] \in POSITIVE_WORDS})
        neg == Cardinality({i \in 1..Len(tokens) : tokens[i] \in NEGATIVE_WORDS})
        score == Rat(pos - neg, pos + neg)
    IN  IF tokens = <<>> THEN [score |-> Rat(0, 1), label |-> "neutral"]
        ELSE IF pos = 0 /\ neg = 0 THEN [score |-> Rat(0, 1), label |-> "neutral"]
        ELSE IF RatLE(Rat(2, 10), score) THEN [score |-> score, label |-> "positive"]
        ELSE IF RatLE(score, Rat(0 - 2, 10)) THEN [score |-> score, label |-> "negative"]
        ELSE [score |-> score, label |-> "neutral"]

analyze_sentiment(text) ==
    LET tokens == Split(Lower(text))
        pos == Cardinality({i \in 1..Len(tokens) : tokens[i] \in POSITIVE_WORDS})
        neg == Cardinality({i \in 1..Len(tokens) : tokens[i] \in NEGATIVE_WORDS})
        score == Rat(pos - neg, pos + neg)
    IN  IF tokens = <<>> THEN [score |-> Rat(0, 1), label |-> "neutral"]
        ELSE IF pos = 0 /\ neg = 0 THEN [score |-> Rat(0, 1), label |-> "neutral"]
        ELSE IF RatLT(Rat(2, 10), score) THEN [score |-> score, label |-> "positive"]
        ELSE IF RatLT(score, Rat(0 - 2, 10)) THEN [score |-> score, label |-> "negative"]
        ELSE [score |-> score, label |-> "neutral"]

(***************************************************************************)
(* Slack alerts.                                                           *)
(***************************************************************************)
\* send_slack_message.  webhook is what SLACK_WEBHOOK_URL holds: "unset" (no
\* value or an empty one), "no scheme" (a value request.Request takes for no
\* URL: the ValueError of line 132 is raised before the try) or "url"; net is
\* whether urlopen succeeds
send_slack_message(webhook, net) ==
    IF webhook = "unset" THEN "disabled"
    ELSE IF webhook = "no scheme" THEN "ValueError"
    ELSE IF net THEN "sent"
    ELSE "error"

\* a variant of the low-CTR threshold that overlaps the high-CTR one
LOW_CTR_wide == Rat(20, 100)

HIGH_CTR == Rat(10, 100)
HIGH_ENG == Rat(15, 100)
LOW_CTR == Rat(2, 100)

\* a variant with strict comparisons
HighPerforming_strict(ctr, eng) == RatLT(HIGH_CTR, ctr) \/ RatLT(HIGH_ENG, eng)

\* the condition of the if at line 146
HighPerforming(ctr, eng) == RatLE(HIGH_CTR, ctr) \/ RatLE(HIGH_ENG, eng)

\* the condition of the elif at line 155
LowPerformance(ctr, sentiment) == RatLE(ctr, LOW_CTR) /\ RatLT(sentiment, Rat(0, 1))

\* maybe_send_alert: the messages handed to send_slack_message, in order
maybe_send_alert(ctr, eng, sentiment) ==
    IF HighPerforming(ctr, eng) THEN <<"high">>
    ELSE IF LowPerformance(ctr, sentiment) THEN <<"low">>
    ELSE <<>>

(***************************************************************************)
(* A/B testing.                                                            *)
(***************************************************************************)
Counters(impressions, clicks, likes, comments) ==
    [impressions |-> impressions, clicks |-> clicks, likes |-> likes,
     comments |-> comments]

\* the inner ctr(x) and eng(x)
ab_ctr(x) == TrueDiv(x.clicks, Max(1, x.impressions))
ab_eng(x) == TrueDiv(x.likes + x.comments, Max(1, x.impressions))

\* a variant that compares the engagement rates first
evaluate_ab_test_engagement_first(A, B) ==
    LET a_ctr == ab_ctr(A)
        b_ctr == ab_ctr(B)
        a_eng == ab_eng(A)
        b_eng == ab_eng(B)
        verdict ==
            IF RatLT(b_eng, a_eng) THEN <<"A", "higher engagement">>
            ELSE IF RatLT(a_eng, b_eng) THEN <<"B", "higher engagement">>
            ELSE IF RatLT(b_ctr, a_ctr) THEN <<"A", "higher CTR">>
            ELSE IF RatLT(a_ctr, b_ctr) THEN <<"B", "higher CTR">>
            ELSE <<"tie", "similar performance">>
    IN  [winner |-> verdict[1], reason |-> verdict[2],
         a_ctr |-> a_ctr, a_eng |-> a_eng, b_ctr |-> b_ctr, b_eng |-> b_eng]

evaluate_ab_test(A, B) ==
    LET a_ctr == ab_ctr(A)
        b_ctr == ab_ctr(B)
        a_eng == ab_eng(A)
        b_eng == ab_eng(B)
        verdict ==
            IF RatLT(b_ctr, a_ctr) THEN <<"A", "higher CTR">>
            ELSE IF RatLT(a_ctr, b_ctr) THEN <<"B", "higher CTR">>
            ELSE IF RatLT(b_eng, a_eng) THEN <<"A", "higher engagement">>
            ELSE IF RatLT(a_eng, b_eng) THEN <<"B", "higher engagement">>
            ELSE <<"tie", "similar performance">>
    IN  [winner |-> verdict[1], reason |-> verdict[2],
         a_ctr |-> a_ctr, a_eng |-> a_eng, b_ctr |-> b_ctr, b_eng |-> b_eng]

(***************************************************************************)
(* The report.                                                             *)
(***************************************************************************)
\* row[key] of the dict csv.DictReader builds: zip(fieldnames, line), the
\* columns the line is too short for set to None; KeyError when no column
\* has the name.  A header cell is a column name when it is a string; the
\* number, text and timestamp cells of the model never spell one.
Lookup(fieldnames, line, key) ==
    LET idx == {i \in 1..Len(fieldnames) :
                    fieldnames[i].t = "str" /\ fieldnames[i].s = key}
        m == CHOOSE i \in idx : \A j \in idx : j <= i
    IN  IF idx = {} THEN [exc |-> "KeyError", cell |-> NoneCell]
        ELSE IF m > Len(line) THEN [exc |-> "", cell |-> NoneCell]
        ELSE [exc |-> "", cell |-> line[m]]

\* float(x): the value in ten-thousandths, or the exception raised
Float(cell) ==
    IF cell.t = "float" THEN [exc |-> "", v |-> cell.n]
    ELSE IF cell.t = "int" THEN [exc |-> "", v |-> 10000 * cell.n]
    ELSE IF cell.t = "none" THEN [exc |-> "TypeError", v |-> 0]
    ELSE [exc |-> "ValueError", v |-> 0]

\* float(row[key])
FloatField(fieldnames, line, key) ==
    LET got == Lookup(fieldnames, line, key)
    IN  IF got.exc # "" THEN [exc |-> got.exc, v |-> 0] ELSE Float(got.cell)

RECURSIVE ReportLoop(_, _, _, _)
\* the for loop at lines 219-227 from line i on; acc is (total, sum_ctr, sum_eng)
ReportLoop(fieldnames, lines, i, acc) ==
    IF i > Len(lines) THEN acc
    ELSE IF lines[i] = <<>> THEN ReportLoop(fieldnames, lines, i + 1, acc)
    ELSE
      LET ctr == FloatField(fieldnames, lines[i], "ctr")
          eng == FloatField(fieldnames, lines[i], "engagement_rate")
          exc == IF ctr.exc # "" THEN ctr.exc ELSE eng.exc
      IN  IF exc = ""
          THEN ReportLoop(fieldnames, lines, i + 1,
                  [acc EXCEPT !.total = @ + 1, !.sum_ctr = @ + ctr.v,
                              !.sum_eng = @ + eng.v])
          ELSE IF exc \in {"ValueError", "KeyError"}
          THEN ReportLoop(fieldnames, lines, i + 1, acc)
          ELSE [acc EXCEPT !.status = exc]

NoReport == [status |-> "", total |-> 0, sum_ctr |-> 0, sum_eng |-> 0,
             avg_ctr |-> Rat(0, 1), avg_eng |-> Rat(0, 1)]

\* generate_report: status is what the call printed ("No metrics yet.",
\* "File empty or no valid rows.", "report") or the exception that ended it
generate_report(file) ==
    IF ~file.exists THEN [NoReport EXCEPT !.status = "No metrics yet."]
    ELSE IF file.lines = <<>>
    THEN [NoReport EXCEPT !.status = "File empty or no valid rows."]
    ELSE
      LET acc == ReportLoop(file.lines[1], file.lines, 2,
                            [NoReport EXCEPT !.status = "report"])
      IN  IF acc.status # "report" THEN acc
          ELSE IF acc.total = 0
          THEN [acc EXCEPT !.status = "File empty or no valid rows."]
          ELSE [acc EXCEPT !.avg_ctr = TrueDiv(acc.sum_ctr, acc.total),
                           !.avg_eng = TrueDiv(acc.sum_eng, acc.total)]

(***************************************************************************)
(* The menu loop of src/milestone3.py: one action per menu choice.  The    *)
(* metrics file may exist before the program starts.                       *)
(***************************************************************************)
\* a line the program wrote in an earlier run
SampleLine ==
    append_metrics_row(AbsentFile, "post_1", "single", <<>>, 2, 1, 0, 0,
                       Rat(0, 1), "neutral", None, None, None).file.lines[2]

\* a line that did not come from append_metrics_row; InitialFiles holds
\* more of them: a ctr that is no number, an empty engagement rate, a line
\* cut before it, an empty line, and a header of other columns
ShortLine == SubSeq(SampleLine, 1, Col("variant"))

ExistingFile(lines) == [exists |-> TRUE, lines |-> lines]

InitialFiles ==
    { AbsentFile,
      ExistingFile(<<>>),
      ExistingFile(<<METRICS_HEADER>>),
      ExistingFile(<<METRICS_HEADER, SampleLine>>),
      ExistingFile(<<METRICS_HEADER, [SampleLine EXCEPT ![Col("ctr")] = Str("n/a")]>>),
      ExistingFile(<<METRICS_HEADER,
                     [SampleLine EXCEPT ![Col("engagement_rate")] = Str("")]>>),
      ExistingFile(<<METRICS_HEADER, SubSeq(SampleLine, 1, Col("ctr"))>>),
      ExistingFile(<<METRICS_HEADER, ShortLine>>),
      ExistingFile(<<METRICS_HEADER, << >> >>),
      ExistingFile(<< <<Str("timestamp"), Str("post_id"), Str("text")>>,
                     ShortLine >>) }

\* what the user types at the prompts
HubTexts == { <<>>, <<"B","a","d"," ","a","d">> }
HubPostIds == {"post_1"}
HubVariants == {"single"}
HubTestIds == {"campaign_01"}
HubCounters ==
    { Counters(i, c, l, m) :
        i \in {0 - 1, 0, 2}, c \in {0 - 1, 1}, l \in {0, 1}, m \in {0} }

NoAB == [winner |-> "", reason |-> "", a_ctr |-> Rat(0, 1), a_eng |-> Rat(0, 1),
         b_ctr |-> Rat(0, 1), b_eng |-> Rat(0, 1)]

NoLast ==
    [op |-> "", score |-> Rat(0, 1), label |-> "", status |-> "",
     ctr |-> Rat(0, 1), eng |-> Rat(0, 1), alerts |-> <<>>,
     ab |-> NoAB, report |-> NoReport]

NoCall ==
    [fn |-> "", A |-> Counters(0, 0, 0, 0), B |-> Counters(0, 0, 0, 0),
     ctr |-> Rat(0, 1), eng |-> Rat(0, 1), sentiment |-> Rat(0, 1),
     text |-> <<>>, max_tags |-> 0, webhook |-> "unset"]

NoResult == [fn |-> ""]

\* room for n more rows under the model's bound
Room(n) ==
    Cardinality({i \in 1..Len(metricsFile.lines) :
                    metricsFile.lines[i] # METRICS_HEADER}) + n <= MaxRows

\* an uncaught exception ends the program
After(status) == IF status = "ok" THEN "menu" ELSE "crash"

\* ch == "1": analyze sentiment, store a row with zero metrics
MenuSentimentOnly ==
    /\ pc = "menu"
    /\ Room(1)
    /\ \E text \in HubTexts, post_id \in HubPostIds, variant \in HubVariants :
         LET s == analyze_sentiment(text)
             r == append_metrics_row(metricsFile, post_id, variant, text,
                                     0, 0, 0, 0, s.score, s.label,
                                     None, None, None)
         IN  /\ metricsFile' = r.file
             /\ last' = [NoLast EXCEPT !.op = "sentiment", !.score = s.score,
                                       !.label = s.label, !.status = r.status]
             /\ pc' = After(r.status)
    /\ UNCHANGED <<call, result>>

\* ch == "2": log the metrics of one post, then maybe alert.  alerts are the
\* messages handed to send_slack_message, delivery what can become of one
\* (webhook is what os.getenv gives the call of line 122, net whether
\* urlopen succeeds).  A message that is sent, not sent or only printed
\* leaves the program where it is; the ValueError of send_slack_message is
\* caught nowhere and ends the program, after the row was saved.
MenuLogMetrics ==
    /\ pc = "menu"
    /\ Room(1)
    /\ \E text \in HubTexts, post_id \in HubPostIds, variant \in HubVariants,
          x \in HubCounters :
         LET s == analyze_sentiment(text)
             r == append_metrics_row(metricsFile, post_id, variant, text,
                                     x.impressions, x.clicks, x.likes,
                                     x.comments, s.score, s.label,
                                     None, None, None)
             alerts == IF r.status = "ok"
                       THEN maybe_send_alert(r.ctr, r.eng, s.score)
                       ELSE <<>>
             delivery == {send_slack_message(webhook, net) :
                            webhook \in {"unset", "no scheme", "url"},
                            net \in BOOLEAN}
             statuses == IF alerts = <<>> THEN {r.status}
                         ELSE {IF d = "ValueError" THEN d ELSE r.status :
                                 d \in delivery}
         IN  \E status \in statuses :
               /\ metricsFile' = r.file
               /\ last' = [NoLast EXCEPT
                             !.op = "metrics", !.score = s.score,
                             !.label = s.label, !.status = status,
                             !.ctr = r.ctr, !.eng = r.eng, !.alerts = alerts]
               /\ pc' = After(status)
    /\ UNCHANGED <<call, result>>

\* a variant that stamps both rows
ab_stamp_always(winner, variant, value) == value

\* ab_winner=winner if winner == "A" else "" (and the same for ab_reason, for B)
ab_stamp(winner, variant, value) == IF winner = variant THEN value ELSE ""

\* score, label = analyze_sentiment(t) if t.strip() else (0.0, "neutral")
ab_sentiment(text) ==
    IF Strip(text) # <<>> THEN analyze_sentiment(text)
    ELSE [score |-> Rat(0, 1), label |-> "neutral"]

\* ch == "3": evaluate an A/B test and log one row per variant
MenuABTest ==
    /\ pc = "menu"
    /\ Room(2)
    /\ \E ab_id \in HubTestIds, base_post \in HubPostIds,
          text_a \in HubTexts, text_b \in HubTexts,
          A \in HubCounters, B \in HubCounters :
         LET ev == evaluate_ab_test(A, B)
             sa == ab_sentiment(text_a)
             sb == ab_sentiment(text_b)
             ra == append_metrics_row(metricsFile, base_post, "A", text_a,
                      A.impressions, A.clicks, A.likes, A.comments,
                      sa.score, sa.label, ab_id,
                      ab_stamp(ev.winner, "A", ev.winner),
                      ab_stamp(ev.winner, "A", ev.reason))
             rb == append_metrics_row(ra.file, base_post, "B", text_b,
                      B.impressions, B.clicks, B.likes, B.comments,
                      sb.score, sb.label, ab_id,
                      ab_stamp(ev.winner, "B", ev.winner),
                      ab_stamp(ev.winner, "B", ev.reason))
             status == IF ra.status # "ok" THEN ra.status ELSE rb.status
         IN  /\ metricsFile' = IF ra.status # "ok" THEN ra.file ELSE rb.file
             /\ last' = [NoLast EXCEPT !.op = "ab", !.ab = ev, !.status = status]
             /\ pc' = After(status)
    /\ UNCHANGED <<call, result>>

\* ch == "4": the report
MenuReport ==
    /\ pc = "menu"
    /\ LET rep == generate_report(metricsFile)
       IN  /\ last' = [NoLast EXCEPT !.op = "report", !.report = rep,
                                     !.status = rep.status]
           /\ pc' = IF rep.status \in {"TypeError", "ValueError", "KeyError"}
                    THEN "crash" ELSE "menu"
    /\ UNCHANGED <<metricsFile, call, result>>

\* ch == "5"
MenuExit ==
    /\ pc = "menu"
    /\ pc' = "exit"
    /\ last' = [NoLast EXCEPT !.op = "exit"]
    /\ UNCHANGED <<metricsFile, call, result>>

\* any other choice prints "Invalid choice!"
MenuInvalid ==
    /\ pc = "menu"
    /\ UNCHANGED vars

Init ==
    /\ metricsFile \in InitialFiles
    /\ last = NoLast
    /\ pc = "menu"
    /\ call = NoCall
    /\ result = NoResult

Next ==
    \/ MenuSentimentOnly
    \/ MenuLogMetrics
    \/ MenuABTest
    \/ MenuReport
    \/ MenuExit
    \/ MenuInvalid

Spec == Init /\ [][Next]_vars

(***************************************************************************)
(* One call of a function of src/milestone3.py, its arguments drawn from   *)
(* bounded sets.                                                           *)
(***************************************************************************)
FnCounters ==
    { Counters(i, c, l, m) :
        i \in (0 - 1)..MaxImp, c \in (0 - 1)..MaxCount,
        l \in 0..MaxLikes, m \in 0..MaxLikes }

ABCalls ==
    { [NoCall EXCEPT !.fn = "evaluate_ab_test", !.A = a, !.B = b] :
        a \in FnCounters, b \in FnCounters }

AppendCalls ==
    { [NoCall EXCEPT !.fn = "append_metrics_row", !.A = Counters(i, c, l, m)] :
        i \in (0 - 1)..MaxImp, c \in (0 - 1)..MaxClicks,
        l \in 0..MaxLikes, m \in 0..MaxLikes }

AlertCalls ==
    { [NoCall EXCEPT !.fn = "maybe_send_alert", !.ctr = Rat(c, 100),
                     !.eng = Rat(e, 100), !.sentiment = Rat(k, 2),
                     !.webhook = w] :
        c \in (0 - 1)..MaxPct, e \in 0..MaxPct, k \in (0 - 2)..2,
        w \in {"unset", "no scheme", "url"} }

FnEvaluateAB ==
    /\ pc = "call"
    /\ call.fn = "evaluate_ab_test"
    /\ result' = evaluate_ab_test(call.A, call.B)
    /\ pc' = "return"
    /\ UNCHANGED <<metricsFile, last, call>>

FnAppendMetricsRow ==
    /\ pc = "call"
    /\ call.fn = "append_metrics_row"
    /\ LET r == append_metrics_row(metricsFile, "post_1", "single", <<>>,
                    call.A.impressions, call.A.clicks, call.A.likes,
                    call.A.comments, Rat(0, 1), "neutral", None, None, None)
       IN  /\ metricsFile' = r.file
           /\ result' = [status |-> r.status, ctr |-> r.ctr, eng |-> r.eng]
    /\ pc' = "return"
    /\ UNCHANGED <<last, call>>

FnMaybeSendAlert ==
    /\ pc = "call"
    /\ call.fn = "maybe_send_alert"
    /\ \E net \in BOOLEAN :
         LET alerts == maybe_send_alert(call.ctr, call.eng, call.sentiment)
         IN  result' = [alerts |-> alerts,
                        delivery |-> [i \in 1..Len(alerts) |->
                                        send_slack_message(call.webhook, net)]]
    /\ pc' = "return"
    /\ UNCHANGED <<metricsFile, last, call>>

InitFn ==
    /\ metricsFile = AbsentFile
    /\ last = NoLast
    /\ pc = "call"
    /\ call \in ABCalls \cup AppendCalls \cup AlertCalls
    /\ result = NoResult

NextFn ==
    \/ FnEvaluateAB
    \/ FnAppendMetricsRow
    \/ FnMaybeSendAlert

SpecFn == InitFn /\ [][NextFn]_vars

(***************************************************************************)
(* The text optimizer of src/gen_content_optimization.py.  A str is a      *)
(* sequence of one-character strings.                                      *)
(***************************************************************************)
TRENDING_KEYWORDS ==
    << <<"A","I">>,
       <<"A","u","t","o","m","a","t","i","o","n">>,
       <<"D","i","g","i","t","a","l">>,
       <<"M","a","r","k","e","t","i","n","g">>,
       <<"I","n","n","o","v","a","t","i","o","n">>,
       <<"T","e","c","h","n","o","l","o","g","y">> >>

TRENDING_HASHTAGS ==
    << <<"#","A","I">>,
       <<"#","M","a","r","k","e","t","i","n","g">>,
       <<"#","I","n","n","o","v","a","t","i","o","n">>,
       <<"#","D","i","g","i","t","a","l">>,
       <<"#","A","u","t","o","m","a","t","i","o","n">>,
       <<"#","T","e","c","h">> >>

MAX_HASHTAGS == 3
MIN_WORDS == 50
MAX_WORDS == 100
APPLY_GRAMMAR_CORRECTION == TRUE

\* the phrases contains_call_to_action looks for
ctas ==
    { <<"f","o","l","l","o","w">>,
      <<"s","u","b","s","c","r","i","b","e">>,
      <<"l","e","a","r","n"," ","m","o","r","e">>,
      <<"c","l","i","c","k">>,
      <<"v","i","s","i","t">>,
      <<"t","r","y">>,
      <<"j","o","i","n">>,
      <<"b","u","y">>,
      <<"s","h","o","p">> }

\* the sentence optimize_content appends when no phrase is found
LearnMore == <<" ","L","e","a","r","n"," ","m","o","r","e"," ","a","n","d"," ","j","o","i","n"," ","t","h","e"," ","m","o","v","e","m","e","n","t","!">>

\* the character between the text and the hashtags ensure_hashtags_from_keywords adds
MiddleDot == "<U+00B7>"

Min(a, b) == IF a <= b THEN a ELSE b

\* s[:n]
Slice(s, n) ==
    IF n >= 0 THEN SubSeq(s, 1, Min(n, Len(s)))
    ELSE SubSeq(s, 1, Max(0, Len(s) + n))

\* sep.join(words)
Join(words, sep) ==
    CatRange([i \in 1..Len(words) |->
                IF i = 1 THEN words[i] ELSE sep \o words[i]],
             1, Len(words))

\* phrase in text
Contains(t, p) ==
    \E i \in 1..(Len(t) - Len(p) + 1) :
        /\ t[i] = p[1]
        /\ SubSeq(t, i, i + Len(p) - 1) = p

\* text.endswith((".", "!", "?"))
EndsSentence(t) == Len(t) > 0 /\ t[Len(t)] \in {".", "!", "?"}

\* re.sub(r"\s+", " ", text): every maximal whitespace run becomes one space
CollapseSpaces(t) ==
    CatRange([i \in 1..Len(t) |->
                IF ~IsSpace(t[i]) THEN <<t[i]>>
                ELSE IF i > 1 /\ IsSpace(t[i - 1]) THEN <<>> ELSE <<" ">>],
             1, Len(t))

\* the one value of the model that is no str
NotAStr == <<None>>

\* isinstance(text, str)
IsStr(text) == text # NotAStr

\* the whitespace is collapsed and the ends are left as they are
clean_text_no_strip(text) ==
    IF ~IsStr(text) THEN <<>> ELSE CollapseSpaces(text)

\* clean_text: "" for what is no str, else collapse the whitespace and strip
clean_text(text) ==
    IF ~IsStr(text) THEN <<>> ELSE Strip(CollapseSpaces(text))

\* a match of #\w+ starts at i: a "#" with a word character after it
\* ("#" is no word character, so no match starts inside another)
IsTagStart(t, i) == t[i] = "#" /\ i < Len(t) /\ IsWord(t[i + 1])

\* the first index > i of t that holds no word character, or Len(t) + 1:
\* \w+ is greedy, the match that starts at i ends right before it
TagEnd(t, i) ==
    CHOOSE j \in (i + 1)..(Len(t) + 1) :
        /\ j = Len(t) + 1 \/ ~IsWord(t[j])
        /\ \A k \in (i + 1)..(j - 1) : IsWord(t[k])

\* re.findall(r"#\w+", text)
extract_hashtags(text) ==
    IF ~IsStr(text) THEN <<>>
    ELSE CatRange([i \in 1..Len(text) |->
                     IF IsTagStart(text, i)
                     THEN <<SubSeq(text, i, TagEnd(text, i) - 1)>>
                     ELSE <<>>],
                  1, Len(text))

\* position i of t lies in a match of #\w+\b: it starts one, or it is a word
\* character whose run of word characters has a "#" right before it (\b
\* holds at the end of the run \w+ takes, so the matches are those of #\w+)
InTag(t, i) ==
    \/ IsTagStart(t, i)
    \/ /\ IsWord(t[i])
       /\ LET before == {j \in 1..i : ~IsWord(t[j])}
          IN  /\ before # {}
              /\ t[CHOOSE j \in before : \A k \in before : k <= j] = "#"

\* re.sub(r"#\w+\b", "", text)
sub_hashtags(text) ==
    CatRange([i \in 1..Len(text) |->
                IF InTag(text, i) THEN <<>> ELSE <<text[i]>>],
             1, Len(text))

\* kept = tags[-max_tags:], a slip for tags[:max_tags]
limit_hashtags_keep_last(text, max_tags) ==
    LET tags == extract_hashtags(text)
        kept == SubSeq(tags, Len(tags) - max_tags + 1, Len(tags))
        text_no_tags == sub_hashtags(text)
        sep == IF EndsSentence(text_no_tags) THEN <<" ">> ELSE <<" ">>
    IN  IF Len(tags) <= max_tags THEN text
        ELSE Strip(Strip(text_no_tags) \o sep \o Join(kept, <<" ">>))

limit_hashtags(text, max_tags) ==
    LET tags == extract_hashtags(text)
        kept == Slice(tags, max_tags)
        text_no_tags == sub_hashtags(text)
        sep == IF EndsSentence(text_no_tags) THEN <<" ">> ELSE <<" ">>
    IN  IF Len(tags) <= max_tags THEN text
        ELSE Strip(Strip(text_no_tags) \o sep \o Join(kept, <<" ">>))

\* any(phrase in text.lower() for phrase in ctas)
contains_call_to_action(text) ==
    LET lowered == Lower(text)
    IN  \E phrase \in ctas : Contains(lowered, phrase)

\* the loop of ensure_hashtags_from_keywords from keyword i on
RECURSIVE EnsureLoop(_, _, _, _, _)
EnsureLoop(keywords, i, existing_lower, hashtags_to_add, max_tags) ==
    IF i > Len(keywords) THEN hashtags_to_add
    ELSE LET tag == <<"#">> \o SelectSeq(keywords[i], IsWord)
             taken == Range(existing_lower)
                        \cup {Lower(h) : h \in Range(hashtags_to_add)}
             added == IF Lower(tag) \notin taken
                      THEN Append(hashtags_to_add, tag)
                      ELSE hashtags_to_add
         IN  IF Len(added) >= max_tags THEN added
             ELSE EnsureLoop(keywords, i + 1, existing_lower, added, max_tags)

\* the loop with the hashtags compared as they are written
RECURSIVE EnsureLoopExact(_, _, _, _, _)
EnsureLoopExact(keywords, i, existing, hashtags_to_add, max_tags) ==
    IF i > Len(keywords) THEN hashtags_to_add
    ELSE LET tag == <<"#">> \o SelectSeq(keywords[i], IsWord)
             added == IF tag \notin Range(existing) \cup Range(hashtags_to_add)
                      THEN Append(hashtags_to_add, tag)
                      ELSE hashtags_to_add
         IN  IF Len(added) >= max_tags THEN added
             ELSE EnsureLoopExact(keywords, i + 1, existing, added, max_tags)

\* a hashtag that differs from a keyword's in case only does not count as
\* present
ensure_hashtags_case_sensitive(text, keywords, max_tags) ==
    LET hashtags_to_add ==
            EnsureLoopExact(keywords, 1, extract_hashtags(text), <<>>, max_tags)
        sep == IF EndsSentence(text) THEN <<" ">> ELSE <<" ", MiddleDot, " ">>
    IN  IF hashtags_to_add = <<>> THEN text
        ELSE Strip(text \o sep \o Join(hashtags_to_add, <<" ">>))

\* the cap handed in is ignored: up to MAX_HASHTAGS hashtags are added
ensure_hashtags_ignoring_cap(text, keywords, max_tags) ==
    LET tags == extract_hashtags(text)
        existing_lower == [i \in 1..Len(tags) |-> Lower(tags[i])]
        hashtags_to_add == EnsureLoop(keywords, 1, existing_lower, <<>>, MAX_HASHTAGS)
        sep == IF EndsSentence(text) THEN <<" ">> ELSE <<" ", MiddleDot, " ">>
    IN  IF hashtags_to_add = <<>> THEN text
        ELSE Strip(text \o sep \o Join(hashtags_to_add, <<" ">>))

ensure_hashtags_from_keywords(text, keywords, max_tags) ==
    LET tags == extract_hashtags(text)
        existing_lower == [i \in 1..Len(tags) |-> Lower(tags[i])]
        hashtags_to_add == EnsureLoop(keywords, 1, existing_lower, <<>>, max_tags)
        sep == IF EndsSentence(text) THEN <<" ">> ELSE <<" ", MiddleDot, " ">>
    IN  IF hashtags_to_add = <<>> THEN text
        ELSE Strip(text \o sep \o Join(hashtags_to_add, <<" ">>))

\* the slice is one word too long: words[:max_words + 1]
truncate_or_pad_words_one_more(text, min_words, max_words) ==
    LET words == Split(text)
        padding == <<" ">> \o Join(Slice(TRENDING_HASHTAGS, 2), <<" ">>)
    IN  IF Len(words) > max_words
        THEN Join(SubSeq(words, 1, max_words + 1), <<" ">>) \o <<".", ".", ".">>
        ELSE IF Len(words) < min_words THEN Strip(text \o padding)
        ELSE text

truncate_or_pad_words(text, min_words, max_words) ==
    LET words == Split(text)
        padding == <<" ">> \o Join(Slice(TRENDING_HASHTAGS, 2), <<" ">>)
    IN  IF Len(words) > max_words
        THEN Join(SubSeq(words, 1, max_words), <<" ">>) \o <<".", ".", ".">>
        ELSE IF Len(words) < min_words THEN Strip(text \o padding)
        ELSE text

\* TextBlob(text).correct() is a call into the textblob library: it respells
\* the text word by word (tokens \w+) and leaves every other character in
\* place, or it raises.  Its dictionary is modelled by the respellings below.
Respellings ==
    { <<<<"c","l","i","k">>, <<"c","l","i","c","k">>>>,
      <<<<"t","e","h">>, <<"t","h","e">>>> }

Respell(word) ==
    IF \E p \in Respellings : p[1] = word
    THEN (CHOOSE p \in Respellings : p[1] = word)[2]
    ELSE word

\* the first index > i of t that holds no word character, or Len(t) + 1
WordEnd(t, i) ==
    CHOOSE j \in (i + 1)..(Len(t) + 1) :
        /\ j = Len(t) + 1 \/ ~IsWord(t[j])
        /\ \A k \in (i + 1)..(j - 1) : IsWord(t[k])

correct(t) ==
    CatRange([i \in 1..Len(t) |->
                IF ~IsWord(t[i]) THEN <<t[i]>>
                ELSE IF i > 1 /\ IsWord(t[i - 1]) THEN <<>>
                ELSE Respell(SubSeq(t, i, WordEnd(t, i) - 1))],
             1, Len(t))

\* what the library call does: "corrected" or "raise"
BlobOutcomes == {"corrected", "raise"}

grammar_correction(text, apply_correction, blob) ==
    IF ~apply_correction \/ text = <<>> THEN text
    ELSE IF blob = "raise" THEN text
    ELSE correct(text)

\* optimize_content on a str: the text after each step of the pipeline
optimize_content_steps(text, blob) ==
    LET cleaned == clean_text(text)
        corrected == grammar_correction(cleaned, APPLY_GRAMMAR_CORRECTION, blob)
        with_cta == IF ~contains_call_to_action(corrected)
                    THEN corrected \o LearnMore
                    ELSE corrected
        limited == limit_hashtags(with_cta, MAX_HASHTAGS)
        current_tags == extract_hashtags(limited)
        ensured == IF Len(current_tags) < MAX_HASHTAGS
                   THEN ensure_hashtags_from_keywords(limited, TRENDING_KEYWORDS,
                            MAX_HASHTAGS - Len(current_tags))
                   ELSE limited
        clamped == truncate_or_pad_words(ensured, MIN_WORDS, MAX_WORDS)
        stripped == Strip(clamped)
        capitalized == IF stripped # <<>>
                       THEN <<UpperChar(stripped[1])>> \o Tail(stripped)
                       ELSE stripped
    IN  [cleaned |-> cleaned, corrected |-> corrected, with_cta |-> with_cta,
         limited |-> limited, ensured |-> ensured, clamped |-> clamped,
         output |-> CollapseSpaces(capitalized)]

optimize_content(text, blob) ==
    IF ~IsStr(text) THEN <<>> ELSE optimize_content_steps(text, blob).output

(***************************************************************************)
(* One call of limit_hashtags, on every text of at most MaxLen characters  *)
(* and every cap up to MaxCap.                                             *)
(***************************************************************************)


LimitCalls ==
    { [NoCall EXCEPT !.fn = "limit_hashtags", !.text = t, !.max_tags = m] :
        t \in (UNION { [1..n -> {"#", "a", "b", " "}] : n \in 0..MaxLen }),
        m \in 0..MaxCap }

FnLimitHashtags ==
    /\ pc = "call"
    /\ call.fn = "limit_hashtags"
    /\ result' = [fn |-> "limit_hashtags",
                  text |-> limit_hashtags(call.text, call.max_tags)]
    /\ pc' = "return"
    /\ UNCHANGED <<metricsFile, last, call>>

InitHashtags ==
    /\ metricsFile = AbsentFile
    /\ last = NoLast
    /\ pc = "call"
    /\ call \in LimitCalls
    /\ result = NoResult

NextHashtags == FnLimitHashtags

SpecHashtags == InitHashtags /\ [][NextHashtags]_vars

(***************************************************************************)
(* One call of optimize_content.  The post handed in holds k hashtags, n   *)
(* one-letter words, a call to action or none, and a full stop or none;    *)
(* n is near 0, near MIN_WORDS or near MAX_WORDS once the pipeline has     *)
(* added its own words.                                                    *)
(***************************************************************************)
\* the i-th hashtag of a post: the first one is a trending one in lower case
InputTag(i) == IF i = 1 THEN <<"#", "a", "i">> ELSE <<"#", LowerLetters[i]>>

\* the words the pipeline can add before it clamps the length
Overhead == Len(Split(LearnMore)) + MAX_HASHTAGS + 1

FillerCounts ==
    { n \in 0..(MAX_WORDS + Slack) :
        \/ n <= Slack
        \/ MIN_WORDS - Overhead - Slack <= n /\ n <= MIN_WORDS + Slack
        \/ MAX_WORDS - Overhead - Slack <= n }


\* layout "head": the hashtags first, the words two spaces apart, a tab in
\* front; layout "tail": the hashtags last, single spaces
Post(k, n, cta, stop, layout) ==
    LET tags == [i \in 1..k |-> InputTag(i)]
        words == [i \in 1..n |-> <<"w">>]
                    \o (IF cta = <<>> THEN <<>> ELSE <<cta>>)
        body == IF layout = "head"
                THEN <<"\t">> \o Join(tags \o words, <<" ", " ">>)
                ELSE Join(words \o tags, <<" ">>)
    IN  body \o (IF stop THEN <<".">> ELSE <<>>)

OptimizeCalls ==
    { [NoCall EXCEPT !.fn = "optimize_content",
                     !.text = Post(k, n, cta, stop, layout)] :
        k \in 0..MaxTags, n \in FillerCounts,
        cta \in { <<>>, <<"j", "o", "i", "n">>, <<"c", "l", "i", "k">> },
        stop \in BOOLEAN, layout \in {"head", "tail"} }

FnOptimizeContent ==
    /\ pc = "call"
    /\ call.fn = "optimize_content"
    /\ \E blob \in BlobOutcomes :
         LET steps == optimize_content_steps(call.text, blob)
         IN  result' = [fn |-> "optimize_content", steps |-> steps,
                        text |-> steps.output]
    /\ pc' = "return"
    /\ UNCHANGED <<metricsFile, last, call>>

InitOptimize ==
    /\ metricsFile = AbsentFile
    /\ last = NoLast
    /\ pc = "call"
    /\ call \in OptimizeCalls
    /\ result = NoResult

NextOptimize == FnOptimizeContent

SpecOptimize == InitOptimize /\ [][NextOptimize]_vars

(***************************************************************************)
(* clean_text, called on every text of at most MaxLen characters and on a  *)
(* value that is no str, and called again on what it returned.             *)
(***************************************************************************)

CleanCalls ==
    { [NoCall EXCEPT !.fn = "clean_text", !.text = t] :
        t \in UNION { [1..n -> {" ", "\t", "\n", "a"}] : n \in 0..MaxLen } \cup {NotAStr} }

FnCleanText ==
    /\ pc = "call"
    /\ call.fn = "clean_text"
    /\ result' = [fn |-> "clean_text", text |-> clean_text(call.text)]
    /\ pc' = "return"
    /\ UNCHANGED <<metricsFile, last, call>>

FnCleanTextAgain ==
    /\ pc = "return"
    /\ call.fn = "clean_text"
    /\ result' = [fn |-> "clean_text", text |-> clean_text(result.text),
                  first |-> result.text]
    /\ pc' = "again"
    /\ UNCHANGED <<metricsFile, last, call>>

InitClean ==
    /\ metricsFile = AbsentFile
    /\ last = NoLast
    /\ pc = "call"
    /\ call \in CleanCalls
    /\ result = NoResult

NextClean ==
    \/ FnCleanText
    \/ FnCleanTextAgain

SpecClean == InitClean /\ [][NextClean]_vars

(***************************************************************************)
(* One call of the lexicon analyze_sentiment, on every text of at most     *)
(* MaxTokens tokens of a small vocabulary: a positive word in mixed case,  *)
(* a negative word, a word of neither set, and a positive word with a      *)
(* comma attached.                                                         *)
(***************************************************************************)

SentimentCalls ==
    { [NoCall EXCEPT !.fn = "analyze_sentiment", !.text = Join(tokens, <<" ">>)] :
        tokens \in UNION { [1..n -> { <<"G", "o", "o", "d">>, <<"b", "a", "d">>,
                                     <<"o", "k">>, <<"w", "o", "w", ",">> }] :
                            n \in 0..MaxTokens } }

FnAnalyzeSentiment ==
    /\ pc = "call"
    /\ call.fn = "analyze_sentiment"
    /\ LET r == analyze_sentiment(call.text)
       IN  result' = [fn |-> "analyze_sentiment", score |-> r.score,
                      label |-> r.label]
    /\ pc' = "return"
    /\ UNCHANGED <<metricsFile, last, call>>

InitSentiment ==
    /\ metricsFile = AbsentFile
    /\ last = NoLast
    /\ pc = "call"
    /\ call \in SentimentCalls
    /\ result = NoResult

NextSentiment == FnAnalyzeSentiment

SpecSentiment == InitSentiment /\ [][NextSentiment]_vars

(***************************************************************************)
(* Two processes on one metrics file.  Each runs append_metrics_row and    *)
(* generate_report calls, a system call at a time: a process reads or      *)
(* writes the file only in its own steps, and the steps of the two         *)
(* interleave freely.  pc, call and result hold one entry per process;     *)
(* last holds the file the run started with.                               *)
(***************************************************************************)
Procs == {1, 2}

\* the row the k-th append_metrics_row call of process p writes
RowOf(p, k) ==
    append_metrics_row([exists |-> TRUE, lines |-> <<>>],
                       IF p = 1 THEN "post_1" ELSE "post_2", "single", <<>>,
                       2, k, 0, 0, Rat(0, 1), "neutral",
                       None, None, None).file.lines[1]

\* the bytes a cell takes in the file: a name or a label as it is spelt, a
\* counter in decimal, a rounded float as repr gives it (at least one and at
\* most four decimals), the timestamp as isoformat gives it with its
\* microseconds; a cell of type "cut" is what is left of a cell whose first
\* bytes are gone, n bytes of text that is no name and no number
Width(cell) ==
    LET digits[n \in Nat] == IF n < 10 THEN 1 ELSE 1 + digits[n \div 10]
        abs == IF cell.n < 0 THEN 0 - cell.n ELSE cell.n
        minus == IF cell.n < 0 THEN 1 ELSE 0
        frac == abs % 10000
        decimals == IF frac % 1000 = 0 THEN 1 ELSE IF frac % 100 = 0 THEN 2
                    ELSE IF frac % 10 = 0 THEN 3 ELSE 4
    IN  IF cell.t = "str" THEN Len(cell.s)
        ELSE IF cell.t = "text" THEN Len(cell.c)
        ELSE IF cell.t = "int" THEN minus + digits[abs]
        ELSE IF cell.t = "float" THEN minus + digits[abs \div 10000] + 1 + decimals
        ELSE IF cell.t = "time" THEN 26
        ELSE cell.n

\* the bytes of a line: its cells, the commas between them and "\r\n" (the
\* header row takes 149 bytes, a row of the model 74)
Bytes(line) ==
    LET end[i \in 0..Len(line)] ==
            IF i = 0 THEN 0 - 1 ELSE end[i - 1] + 1 + Width(line[i])
    IN  IF line = <<>> THEN 2 ELSE end[Len(line)] + 2

\* the line a reader finds that starts k bytes into a line (0 < k < Bytes):
\* the cells from the one byte k falls in, that cell cut, or empty when k
\* is at the comma behind it; from the line end on, an empty line
Cut(line, k) ==
    LET n == Len(line)
        end[i \in 0..n] ==
            IF i = 0 THEN 0 - 1 ELSE end[i - 1] + 1 + Width(line[i])
        c == CHOOSE i \in 1..n : end[i] >= k /\ end[i - 1] < k
    IN  IF line = <<>> \/ k >= end[n] THEN <<>>
        ELSE IF k = end[c] THEN <<Str("")>> \o SubSeq(line, c + 1, n)
        ELSE IF k = end[c - 1] + 1 THEN SubSeq(line, c, n)
        ELSE <<Cell("cut", end[c] - k, "", <<>>)>> \o SubSeq(line, c + 1, n)

\* a read at byte offset from: the lines the file holds from there on (rows)
\* and the offset the reader is at afterwards (at).  Nothing is read at or
\* beyond the end of the file.
ReadFrom(lines, from) ==
    LET n == Len(lines)
        stop[i \in 0..n] == IF i = 0 THEN 0 ELSE stop[i - 1] + Bytes(lines[i])
        first == CHOOSE i \in 1..n : stop[i] > from /\ stop[i - 1] <= from
    IN  IF from >= stop[n] THEN [rows |-> <<>>, at |-> from]
        ELSE [rows |-> (IF stop[first - 1] = from THEN <<lines[first]>>
                        ELSE <<Cut(lines[first], from - stop[first - 1])>>)
                            \o SubSeq(lines, first + 1, n),
              at |-> stop[n]]

\* closing the file opened with "w" writes the header at offset 0, over
\* whatever the file holds there.  Over the same header nothing changes.
\* Over rows appended since the file was truncated, the 149 bytes of the
\* header take the place of two rows of 74 bytes and of the first byte of
\* the third.
WriteHeaderAtStart(lines) ==
    <<METRICS_HEADER>> \o ReadFrom(lines, Bytes(METRICS_HEADER)).rows

\* a row that was in the file before the run
OldLine ==
    append_metrics_row(AbsentFile, "post_0", "single", <<>>, 2, 1, 0, 0,
                       Rat(0, 1), "neutral", None, None, None).file.lines[2]

\* the locals of generate_report: the bytes read so far, the header row, the
\* sums, what the call printed; started is the file as it was when the call
\* began.  phase is where csv.DictReader stands: "header" before its first
\* read, "missed" when that read found nothing and fieldnames stayed None,
\* "names" when the read after it gave the line row and the names are asked
\* for again, "rows" once it has its fieldnames.
NoReading ==
    [pos |-> 0, fieldnames |-> <<>>, acc |-> NoReport, report |-> NoReport,
     started |-> AbsentFile, phase |-> "header", row |-> <<>>]

\* append_metrics_row, line 60: the call starts
StartAppend(p) ==
    /\ pc[p] = "idle"
    /\ call[p].done < MaxCalls
    /\ call' = [call EXCEPT ![p].fn = "append_metrics_row"]
    /\ pc' = [pc EXCEPT ![p] = "exists"]
    /\ UNCHANGED <<metricsFile, last, result>>

\* init_metrics_file_if_needed, line 34: os.path.exists
AppendExists(p) ==
    /\ pc[p] = "exists"
    /\ pc' = [pc EXCEPT ![p] = IF ~metricsFile.exists THEN "open_w" ELSE "row"]
    /\ UNCHANGED <<metricsFile, last, call, result>>

\* line 35: open(METRICS_FILE, "w") creates the file or truncates it
AppendOpenW(p) ==
    /\ pc[p] = "open_w"
    /\ metricsFile' = [exists |-> TRUE, lines |-> <<>>]
    /\ pc' = [pc EXCEPT ![p] = "header"]
    /\ UNCHANGED <<last, call, result>>

\* lines 36-53: the header row reaches the file when the with block closes it
AppendHeader(p) ==
    /\ pc[p] = "header"
    /\ metricsFile' = [metricsFile EXCEPT !.lines = WriteHeaderAtStart(@)]
    /\ pc' = [pc EXCEPT ![p] = "row"]
    /\ UNCHANGED <<last, call, result>>

\* lines 62-87: the row is appended (open "a", one write at the end of file)
AppendRow(p) ==
    /\ pc[p] = "row"
    /\ metricsFile' = [exists |-> TRUE,
                       lines |-> Append(metricsFile.lines,
                                        RowOf(p, call[p].done + 1))]
    /\ call' = [call EXCEPT ![p].done = @ + 1, ![p].fn = ""]
    /\ pc' = [pc EXCEPT ![p] = "idle"]
    /\ UNCHANGED <<last, result>>

\* generate_report is called
StartReport(p) ==
    /\ pc[p] = "idle"
    /\ ~call[p].reported
    /\ call' = [call EXCEPT ![p].fn = "generate_report"]
    /\ result' = [result EXCEPT ![p] = [NoReading EXCEPT !.started = metricsFile]]
    /\ pc' = [pc EXCEPT ![p] = "r_exists"]
    /\ UNCHANGED <<metricsFile, last>>

\* lines 209-211: os.path.exists
ReportExists(p) ==
    /\ pc[p] = "r_exists"
    /\ IF ~metricsFile.exists
       THEN /\ result' = [result EXCEPT
                            ![p].report = [NoReport EXCEPT !.status = "No metrics yet."]]
            /\ call' = [call EXCEPT ![p].fn = "", ![p].reported = TRUE]
            /\ pc' = [pc EXCEPT ![p] = "idle"]
       ELSE /\ pc' = [pc EXCEPT ![p] = "r_open"]
            /\ UNCHANGED <<call, result>>
    /\ UNCHANGED <<metricsFile, last>>

\* lines 213-218: the sums are set to 0 and the file is opened; nothing is
\* read yet
ReportOpen(p) ==
    /\ pc[p] = "r_open"
    /\ result' = [result EXCEPT ![p].acc = [NoReport EXCEPT !.status = "report"]]
    /\ pc' = [pc EXCEPT ![p] = "r_read"]
    /\ UNCHANGED <<metricsFile, last, call>>

\* lines 229-240: what the call prints after the loop
ReportOf(acc) ==
    IF acc.total = 0
    THEN [acc EXCEPT !.status = "File empty or no valid rows."]
    ELSE [acc EXCEPT !.avg_ctr = TrueDiv(acc.sum_ctr, acc.total),
                     !.avg_eng = TrueDiv(acc.sum_eng, acc.total)]

\* lines 219-227: the reader asks the file for more.  The file hands over
\* what it holds beyond the bytes read so far (the files of the model are
\* smaller than the buffer), and the loop takes these lines; when there is
\* nothing beyond them the loop ends and the report is printed.  The place
\* of the reader is a byte offset: when the header was written over rows it
\* has read, the reader goes on in the middle of a line.
\* csv.DictReader takes its fieldnames from the first line it reads.  When
\* the first read finds nothing, the names stay None and the reader reads
\* again for a row; it then asks for the names once more and takes the line
\* after that row for them.  When there is no such line, zip(None, row)
\* raises TypeError, outside the try of line 220.
ReportRead(p) ==
    /\ pc[p] = "r_read"
    /\ LET r == result[p]
           lines == metricsFile.lines
           read == ReadFrom(lines, r.pos)
           fresh == read.rows
           Finish ==
               /\ result' = [result EXCEPT ![p].report = ReportOf(r.acc)]
               /\ call' = [call EXCEPT ![p].fn = "", ![p].reported = TRUE]
               /\ pc' = [pc EXCEPT ![p] = "idle"]
           Raise(report) ==
               /\ result' = [result EXCEPT ![p].report = report]
               /\ pc' = [pc EXCEPT ![p] = "crash"]
               /\ UNCHANGED call
           Take(fieldnames, rows) ==
               LET acc == ReportLoop(fieldnames, rows, 1, r.acc)
               IN  IF acc.status # "report" THEN Raise(acc)
                   ELSE /\ result' = [result EXCEPT ![p].pos = read.at,
                                                    ![p].fieldnames = fieldnames,
                                                    ![p].acc = acc,
                                                    ![p].phase = "rows"]
                        /\ UNCHANGED <<pc, call>>
       IN  IF r.phase = "header"
           THEN IF fresh # <<>> THEN Take(fresh[1], Tail(fresh))
                ELSE /\ result' = [result EXCEPT ![p].phase = "missed"]
                     /\ UNCHANGED <<pc, call>>
           ELSE IF r.phase = "missed"
           THEN IF fresh = <<>> THEN Finish
                ELSE IF Len(fresh) >= 2
                THEN Take(fresh[2], <<fresh[1]>> \o Tail(Tail(fresh)))
                ELSE /\ result' = [result EXCEPT ![p].phase = "names",
                                                 ![p].row = fresh[1],
                                                 ![p].pos = read.at]
                     /\ UNCHANGED <<pc, call>>
           ELSE IF r.phase = "names"
           THEN IF fresh # <<>> THEN Take(fresh[1], <<r.row>> \o Tail(fresh))
                ELSE Raise([r.acc EXCEPT !.status = "TypeError"])
           ELSE IF fresh # <<>> THEN Take(r.fieldnames, fresh)
                ELSE Finish
    /\ UNCHANGED <<metricsFile, last>>

InitConcurrent ==
    /\ metricsFile \in {AbsentFile, ExistingFile(<<METRICS_HEADER, OldLine>>)}
    /\ last = metricsFile
    /\ pc = [p \in Procs |-> "idle"]
    /\ call = [p \in Procs |-> [fn |-> "", done |-> 0, reported |-> FALSE]]
    /\ result = [p \in Procs |-> NoReading]

NextConcurrent ==
    \E p \in Procs :
        \/ StartAppend(p)
        \/ AppendExists(p)
        \/ AppendOpenW(p)
        \/ AppendHeader(p)
        \/ AppendRow(p)
        \/ StartReport(p)
        \/ ReportExists(p)
        \/ ReportOpen(p)
        \/ ReportRead(p)

SpecConcurrent == InitConcurrent /\ [][NextConcurrent]_vars

(***************************************************************************)
(* The analytics of src/gen_content_optimization.py and the batch          *)
(* optimize_csv runs over the rows of the CSV file.                        *)
(***************************************************************************)
\* TextBlob(text).sentiment.polarity is a call into the textblob library: it
\* raises, or it gives the polarity it finds in the text, a value in [-1, 1]
EstimatorOutcomes(polarity) ==
    { [exc |-> TRUE, polarity |-> Rat(0, 1)],
      [exc |-> FALSE, polarity |-> polarity] }

\* a failure of the estimator counts as the lowest polarity
gco_analyze_sentiment_lowest(text, blob) ==
    LET polarity == IF blob.exc THEN 0 - 1000 ELSE RoundTo(blob.polarity, 1000)
    IN  [polarity |-> polarity,
         label |-> IF polarity > 300 THEN "Positive"
                   ELSE IF polarity >= 0 THEN "Neutral"
                   ELSE "Negative"]

\* analyze_sentiment of gen_content_optimization.py: the polarity in
\* thousandths and the label
gco_analyze_sentiment(text, blob) ==
    LET polarity == IF blob.exc THEN 0 ELSE RoundTo(blob.polarity, 1000)
    IN  [polarity |-> polarity,
         label |-> IF polarity > 300 THEN "Positive"
                   ELSE IF polarity >= 0 THEN "Neutral"
                   ELSE "Negative"]

\* the pieces re.split(r"[.!?]+", text) gives that hold more than whitespace:
\* one for every character that is the first of its piece to be neither
\* whitespace nor one of . ! ?
SentenceCount(t) ==
    Cardinality(
        {i \in 1..Len(t) :
            /\ ~IsSpace(t[i]) /\ t[i] \notin {".", "!", "?"}
            /\ LET stops == {j \in 1..(i - 1) : t[j] \in {".", "!", "?"}}
                   from == IF stops = {} THEN 1
                           ELSE 1 + CHOOSE j \in stops : \A k \in stops : k <= j
               IN  \A k \in from..(i - 1) : IsSpace(t[k])})

calculate_readability(text) ==
    LET words == Split(text)
        avg_sentence_len == TrueDiv(Len(words), Max(SentenceCount(text), 1))
    IN  IF RatLE(avg_sentence_len, Rat(12, 1)) THEN "Easy"
        ELSE IF RatLE(avg_sentence_len, Rat(20, 1)) THEN "Medium"
        ELSE "Complex"

\* calculate_trend_relevance, in hundredths
calculate_trend_relevance(text) ==
    LET lowered == Lower(text)
        matches == Cardinality({i \in 1..Len(TRENDING_KEYWORDS) :
                        Contains(lowered, Lower(TRENDING_KEYWORDS[i]))})
    IN  IF text = <<>> THEN 0
        ELSE RoundTo(Rat(matches, Max(1, Len(TRENDING_KEYWORDS))), 100)

\* calculate_engagement_score, in hundredths: 0.1 a word, 5 a hashtag and 10
\* times the polarity
calculate_engagement_score(text, blob) ==
    LET word_count == Len(Split(text))
        hashtags_count == Len(extract_hashtags(text))
        sentiment_value == gco_analyze_sentiment(text, blob).polarity
    IN  IF text = <<>> THEN 0
        ELSE RoundTo(Rat(100 * word_count + 5000 * hashtags_count
                            + 10 * sentiment_value, 1000), 100)

\* lines 250-277, the body of the loop of optimize_csv for one row: corrector
\* is what the grammar corrector does in this row; estimate, scoring and
\* estimate2 are what the sentiment estimator does in its three calls: on
\* the cleaned text at line 255, on the cleaned text again at line 101
\* (inside calculate_engagement_score, called at line 259), and on the
\* optimized text at line 264
process_row(original_text, corrector, estimate, scoring, estimate2) ==
    LET cleaned_text_value == clean_text(original_text)
        original == gco_analyze_sentiment(cleaned_text_value, estimate)
        steps == optimize_content_steps(cleaned_text_value, corrector)
        optimized_text_value == optimize_content(cleaned_text_value, corrector)
        optimized == gco_analyze_sentiment(optimized_text_value, estimate2)
    IN  [cleaned |-> cleaned_text_value,
         original_sentiment_score |-> original.polarity,
         original_sentiment_label |-> original.label,
         readability |-> calculate_readability(cleaned_text_value),
         hashtag_count |-> Len(extract_hashtags(cleaned_text_value)),
         trend_relevance |-> calculate_trend_relevance(cleaned_text_value),
         engagement |-> calculate_engagement_score(cleaned_text_value, scoring),
         contains_cta |-> contains_call_to_action(cleaned_text_value),
         optimized |-> optimized_text_value,
         optimized_sentiment_score |-> optimized.polarity,
         optimized_sentiment_label |-> optimized.label,
         steps |-> steps, corrector |-> corrector,
         estimate |-> estimate, scoring |-> scoring, estimate2 |-> estimate2]

\* the files optimize_csv can be given: up to MaxBatch rows, whose column
\* Generated_Content holds a text with a misspelt word and one hashtag
BatchCalls ==
    { [NoCall EXCEPT !.fn = "optimize_csv", !.A = rows] :
        rows \in UNION { [1..n -> { <<"c", "l", "i", "k", " ", "#", "a", " ", " ",
                                     "t", "e", "h">> }] :
                          n \in 0..MaxBatch } }

\* what optimize_csv holds between two steps: the texts it read, the row it
\* is at, the values appended so far, what it printed last
NoBatch == [fn |-> "optimize_csv", status |-> "", texts |-> <<>>, i |-> 1,
            rows |-> <<>>, backup |-> FALSE]

\* lines 207-246: the file is looked for, copied and read.  The file may be
\* missing and the copy, the read or the column Generated_Content may fail
\* or be missing.
BatchRead ==
    /\ pc = "call"
    /\ call.fn = "optimize_csv"
    /\ \E exists \in BOOLEAN, backup \in BOOLEAN, read \in BOOLEAN,
          column \in BOOLEAN :
         IF ~exists
         THEN /\ result' = [NoBatch EXCEPT !.status = "not found"]
              /\ pc' = "return"
         ELSE IF ~read
         THEN /\ result' = [NoBatch EXCEPT !.status = "Failed to read CSV",
                                           !.backup = backup]
              /\ pc' = "return"
         ELSE /\ result' = [NoBatch EXCEPT
                              !.backup = backup,
                              !.texts = IF column THEN call.A
                                        ELSE [i \in 1..Len(call.A) |-> <<>>]]
              /\ pc' = "rows"
    /\ UNCHANGED <<metricsFile, last, call>>

\* lines 249-279: one pass of the loop
BatchRow ==
    /\ pc = "rows"
    /\ result.i <= Len(result.texts)
    /\ \E corrector \in BlobOutcomes,
          estimate \in EstimatorOutcomes(Rat(3006, 10000)),
          scoring \in EstimatorOutcomes(Rat(3006, 10000)),
          estimate2 \in EstimatorOutcomes(Rat(0 - 3, 10)) :
         result' = [result EXCEPT
                      !.rows = Append(@, process_row(result.texts[result.i],
                                         corrector, estimate, scoring,
                                         estimate2)),
                      !.i = @ + 1]
    /\ UNCHANGED <<metricsFile, last, call, pc>>

\* lines 281-299: the columns are set and the file is written, which may fail
BatchSave ==
    /\ pc = "rows"
    /\ result.i > Len(result.texts)
    /\ \E saved \in BOOLEAN :
         result' = [result EXCEPT !.status = IF saved THEN "saved"
                                             ELSE "Failed to save CSV"]
    /\ pc' = "return"
    /\ UNCHANGED <<metricsFile, last, call>>

InitBatch ==
    /\ metricsFile = AbsentFile
    /\ last = NoLast
    /\ pc = "call"
    /\ call \in BatchCalls
    /\ result = NoResult

NextBatch ==
    \/ BatchRead
    \/ BatchRow
    \/ BatchSave

SpecBatch == InitBatch /\ [][NextBatch]_vars

(***************************************************************************)
(* One call of truncate_or_pad_words with the word range of the program,   *)
(* on posts of a word count near 0, near MIN_WORDS and near MAX_WORDS.     *)
(***************************************************************************)
ClampCalls ==
    { [NoCall EXCEPT !.fn = "truncate_or_pad_words",
                     !.text = Post(k, n, <<>>, stop, layout)] :
        k \in {0, MAX_HASHTAGS}, n \in FillerCounts, stop \in BOOLEAN,
        layout \in {"head", "tail"} }

FnTruncateOrPad ==
    /\ pc = "call"
    /\ call.fn = "truncate_or_pad_words"
    /\ result' = [fn |-> "truncate_or_pad_words",
                  text |-> truncate_or_pad_words(call.text, MIN_WORDS, MAX_WORDS)]
    /\ pc' = "return"
    /\ UNCHANGED <<metricsFile, last, call>>

InitClamp ==
    /\ metricsFile = AbsentFile
    /\ last = NoLast
    /\ pc = "call"
    /\ call \in ClampCalls
    /\ result = NoResult

NextClamp == FnTruncateOrPad

SpecClamp == InitClamp /\ [][NextClamp]_vars

(***************************************************************************)
(* Properties of src/milestone3.py.                                        *)
(***************************************************************************)
\* the denominator the claims speak of
Denominator(impressions) == IF impressions < 1 THEN 1 ELSE impressions

\* C1: evaluate_ab_test applies the tie-break chain in order: the higher CTR
\* wins with reason "higher CTR" whatever the engagement rates are; with
\* equal CTRs the higher engagement rate wins with reason "higher
\* engagement"; with both equal the result is "tie", "similar performance".
C1_TieBreakChain ==
    (pc = "return" /\ call.fn = "evaluate_ab_test") =>
        LET A == call.A
            B == call.B
            ca == A.clicks * Denominator(B.impressions)
            cb == B.clicks * Denominator(A.impressions)
            ea == (A.likes + A.comments) * Denominator(B.impressions)
            eb == (B.likes + B.comments) * Denominator(A.impressions)
            verdict == <<result.winner, result.reason>>
        IN  /\ ca > cb => verdict = <<"A", "higher CTR">>
            /\ cb > ca => verdict = <<"B", "higher CTR">>
            /\ (ca = cb /\ ea > eb) => verdict = <<"A", "higher engagement">>
            /\ (ca = cb /\ eb > ea) => verdict = <<"B", "higher engagement">>
            /\ (ca = cb /\ ea = eb) => verdict = <<"tie", "similar performance">>

\* A wins on CTR although B has the higher engagement rate
C1_Witness ==
    /\ pc = "return"
    /\ call.fn = "evaluate_ab_test"
    /\ call.A.impressions = 2 /\ call.B.impressions = 2
    /\ call.A.clicks > call.B.clicks
    /\ call.A.likes + call.A.comments < call.B.likes + call.B.comments
    /\ result.winner = "A"
    /\ result.reason = "higher CTR"

\* the lines of the file once init_metrics_file_if_needed has run
WithHeader(file) == IF file.exists THEN file.lines ELSE <<METRICS_HEADER>>

\* C2: a run of the A/B-test-and-log operation appends exactly two records,
\* variant "A" then variant "B", with the same ab_test_id; the winner's
\* record carries its own variant as ab_winner and the evaluator's reason,
\* the loser's record, and both records of a tie, carry empty ab_winner and
\* ab_reason.
C2_ABLogsTwoRecords ==
    [][(last'.op = "ab" /\ last'.status = "ok") =>
        LET old == WithHeader(metricsFile)
            new == metricsFile'.lines
            n == Len(new)
            a == new[n - 1]
            b == new[n]
            ev == last'.ab
            stampA == <<a[Col("ab_winner")], a[Col("ab_reason")]>>
            stampB == <<b[Col("ab_winner")], b[Col("ab_reason")]>>
            empty == <<Str(""), Str("")>>
        IN  /\ n = Len(old) + 2
            /\ SubSeq(new, 1, n - 2) = old
            /\ a[Col("variant")] = Str("A")
            /\ b[Col("variant")] = Str("B")
            /\ a[Col("ab_test_id")] = b[Col("ab_test_id")]
            /\ a[Col("ab_test_id")] \in {Str(id) : id \in HubTestIds}
            /\ ev.winner \in {"A", "B", "tie"}
            /\ ev.winner = "A" =>
                 stampA = <<Str("A"), Str(ev.reason)>> /\ stampB = empty
            /\ ev.winner = "B" =>
                 stampB = <<Str("B"), Str(ev.reason)>> /\ stampA = empty
            /\ ev.winner = "tie" => stampA = empty /\ stampB = empty
    ]_vars

\* an A/B test that B won has been logged
C2_Witness ==
    /\ last.op = "ab"
    /\ last.ab.winner = "B"
    /\ LET n == Len(metricsFile.lines)
       IN  /\ metricsFile.lines[n][Col("ab_winner")] = Str("B")
           /\ metricsFile.lines[n][Col("ab_reason")] = Str(last.ab.reason)
           /\ metricsFile.lines[n - 1][Col("ab_winner")] = Str("")
           /\ metricsFile.lines[n - 1][Col("variant")] = Str("A")

\* C3: the metrics store is append-only: every operation leaves each record
\* that was in the store unchanged and at its position, and only adds
\* records at the end.
C3_AppendOnly ==
    [][metricsFile.exists =>
        /\ metricsFile'.exists
        /\ Len(metricsFile'.lines) >= Len(metricsFile.lines)
        /\ SubSeq(metricsFile'.lines, 1, Len(metricsFile.lines))
             = metricsFile.lines
    ]_vars

\* a store that held a record when the program started, after an append
\* and a report
C3_Witness ==
    /\ Len(metricsFile.lines) = 3
    /\ metricsFile.lines[2] = SampleLine
    /\ metricsFile.lines[3] # SampleLine
    /\ last.op = "report"

\* C4: append_metrics_row never fails with a division error: for every
\* impressions value, 0 and negative ones included, the ctr it returns is
\* clicks / max(1, impressions) and the engagement rate is
\* (likes + comments) / max(1, impressions).
C4_NoDivisionError ==
    (pc = "return" /\ call.fn = "append_metrics_row") =>
        LET den == Denominator(call.A.impressions)
        IN  /\ result.status = "ok"
            /\ result.ctr.d > 0
            /\ result.ctr.n * den = call.A.clicks * result.ctr.d
            /\ result.eng.d > 0
            /\ result.eng.n * den
                 = (call.A.likes + call.A.comments) * result.eng.d
            /\ metricsFile.lines[2][Col("impressions")] = IntCell(den)

\* impressions = 0 with clicks = 5 gives ctr = 5
C4_Witness ==
    /\ pc = "return"
    /\ call.fn = "append_metrics_row"
    /\ call.A.impressions = 0
    /\ call.A.clicks = 5
    /\ result.status = "ok"
    /\ result.ctr.n = 5 * result.ctr.d
    /\ metricsFile.lines[2][Col("ctr")] = FloatCell(50000)

\* the lines a step appended
Appended(old, new) == {new[i] : i \in (Len(old) + 1)..Len(new)} \ {METRICS_HEADER}

\* C5: every record a logging operation puts in the store has ctr >= 0 and
\* engagement_rate >= 0, and the impressions used as denominator is >= 1.
C5_NonNegativeRatios ==
    [][\A line \in Appended(metricsFile.lines, metricsFile'.lines) :
        /\ line[Col("ctr")].n >= 0
        /\ line[Col("engagement_rate")].n >= 0
        /\ line[Col("impressions")].n >= 1
    ]_vars

\* C5, the part that holds: the denominator is at least 1
C5_DenominatorAtLeastOne ==
    [][\A line \in Appended(metricsFile.lines, metricsFile'.lines) :
        line[Col("impressions")].n >= 1
    ]_vars

\* C6: maybe_send_alert sends the high-performing alert exactly when
\* ctr >= 0.10 or engagement rate >= 0.15; otherwise the low-performance
\* alert exactly when ctr <= 0.02 and sentiment < 0; otherwise nothing.
\* At most one alert is sent per call.
C6_AlertDecision ==
    (pc = "return" /\ call.fn = "maybe_send_alert") =>
        LET high == \/ 100 * call.ctr.n >= 10 * call.ctr.d
                    \/ 100 * call.eng.n >= 15 * call.eng.d
            low == /\ 100 * call.ctr.n <= 2 * call.ctr.d
                   /\ call.sentiment.n < 0
        IN  /\ Len(result.alerts) <= 1
            /\ high <=> result.alerts = <<"high">>
            /\ (~high /\ low) <=> result.alerts = <<"low">>
            /\ (~high /\ ~low) <=> result.alerts = <<>>

\* a ctr of exactly 0.10 with a low engagement rate sends the high alert
C6_Witness ==
    /\ pc = "return"
    /\ call.fn = "maybe_send_alert"
    /\ call.ctr = Rat(10, 100)
    /\ call.eng = Rat(5, 100)
    /\ result.alerts = <<"high">>

\* C7 as claimed: with the thresholds of the code the high-performing
\* condition and the low-performance condition never hold together.
C7_ConditionsExclusive ==
    (pc = "return" /\ call.fn = "maybe_send_alert") =>
        ~(HighPerforming(call.ctr, call.eng)
            /\ LowPerformance(call.ctr, call.sentiment))

\* C7, amended: the two conditions hold together only through the
\* engagement rate (ctr <= 0.02, sentiment < 0 and engagement >= 0.15, never
\* with ctr >= 0.10), and then the high-performing alert alone is sent.
C7_ExclusiveButForEngagement ==
    (call.fn = "maybe_send_alert"
        /\ HighPerforming(call.ctr, call.eng)
        /\ LowPerformance(call.ctr, call.sentiment)) =>
            /\ 100 * call.ctr.n < 10 * call.ctr.d
            /\ 100 * call.eng.n >= 15 * call.eng.d
            /\ pc = "return" => result.alerts = <<"high">>

\* both conditions hold and the high-performing alert alone was sent
C7_Witness ==
    /\ pc = "return"
    /\ call.fn = "maybe_send_alert"
    /\ call.ctr = Rat(1, 100)
    /\ call.eng = Rat(15, 100)
    /\ call.sentiment = Rat(0 - 1, 2)
    /\ HighPerforming(call.ctr, call.eng)
    /\ LowPerformance(call.ctr, call.sentiment)
    /\ result.alerts = <<"high">>

\* a line whose ctr and engagement_rate fields are present and parse, under
\* the header of the metrics file
ValidLine(header, line) ==
    /\ header = METRICS_HEADER
    /\ Len(line) >= Col("engagement_rate")
    /\ line[Col("ctr")].t \in {"float", "int"}
    /\ line[Col("engagement_rate")].t \in {"float", "int"}

ValidLines(file) ==
    IF ~file.exists \/ file.lines = <<>> THEN {}
    ELSE {i \in 2..Len(file.lines) : ValidLine(file.lines[1], file.lines[i])}

RECURSIVE SumField(_, _, _)
SumField(file, S, name) ==
    IF S = {} THEN 0
    ELSE LET i == CHOOSE j \in S : TRUE
             c == file.lines[i][Col(name)]
         IN  (IF c.t = "int" THEN 10000 * c.n ELSE c.n)
               + SumField(file, S \ {i}, name)

\* C8: generate_report skips every row whose ctr or engagement_rate field is
\* missing or unparsable without failing the pass, counts the remaining
\* rows, and reports the averages of their ctr and engagement_rate; with no
\* file, an empty file or no valid row it reports an empty result.
C8_ReportSkipsBadRows ==
    last.op = "report" =>
        LET rep == last.report
            valid == ValidLines(metricsFile)
        IN  /\ rep.status \in {"No metrics yet.", "File empty or no valid rows.",
                               "report"}
            /\ rep.status = "No metrics yet." <=> ~metricsFile.exists
            /\ rep.status = "report" <=> valid # {}
            /\ rep.status = "report" =>
                 /\ rep.total = Cardinality(valid)
                 /\ rep.sum_ctr = SumField(metricsFile, valid, "ctr")
                 /\ rep.sum_eng = SumField(metricsFile, valid, "engagement_rate")
                 /\ rep.avg_ctr.n * rep.total = rep.sum_ctr * rep.avg_ctr.d
                 /\ rep.avg_eng.n * rep.total = rep.sum_eng * rep.avg_eng.d

\* One pass over t, character by character: the runs of characters that are
\* no whitespace.
RECURSIVE ScanWords(_, _, _, _)
ScanWords(t, i, inWord, words) ==
    IF i > Len(t) THEN words
    ELSE IF t[i] \in SpaceChars THEN ScanWords(t, i + 1, FALSE, words)
    ELSE IF inWord
    THEN ScanWords(t, i + 1, TRUE,
                   [words EXCEPT ![Len(words)] = Append(@, t[i])])
    ELSE ScanWords(t, i + 1, TRUE, Append(words, <<t[i]>>))

\* how many of the lower-cased tokens of t are in the word set
Hits(t, wordSet) ==
    LET tokens == ScanWords(t, 1, FALSE, <<>>)
    IN  Cardinality({i \in 1..Len(tokens) : Lower(tokens[i]) \in wordSet})

\* C13: with pos and neg the numbers of lower-cased tokens found in the
\* positive and the negative words, analyze_sentiment returns 0.0 and
\* "neutral" when pos + neg = 0, and else the score (pos - neg) / (pos + neg),
\* which lies in [-1, 1], labelled "positive" iff it is above 0.2,
\* "negative" iff it is below -0.2 and "neutral" otherwise.
C13_LexiconSentiment ==
    (pc = "return" /\ call.fn = "analyze_sentiment") =>
        LET pos == Hits(call.text, POSITIVE_WORDS)
            neg == Hits(call.text, NEGATIVE_WORDS)
            n == result.score.n
            d == result.score.d
        IN  IF pos + neg = 0
            THEN n = 0 /\ d = 1 /\ result.label = "neutral"
            ELSE /\ d > 0
                 /\ n * (pos + neg) = (pos - neg) * d
                 /\ 0 - d <= n /\ n <= d
                 /\ result.label = "positive" <=> 5 * (pos - neg) > pos + neg
                 /\ result.label = "negative" <=> 5 * (pos - neg) < 0 - (pos + neg)
                 /\ result.label = "neutral" <=>
                        /\ 5 * (pos - neg) <= pos + neg
                        /\ 5 * (pos - neg) >= 0 - (pos + neg)

\* three positive tokens and two negative ones: the score is exactly 0.2
C13_Witness ==
    /\ pc = "return"
    /\ call.fn = "analyze_sentiment"
    /\ Hits(call.text, POSITIVE_WORDS) = 3
    /\ Hits(call.text, NEGATIVE_WORDS) = 2
    /\ 5 * result.score.n = result.score.d
    /\ result.label = "neutral"

\* C14 as claimed: a generate_report call that runs while the other process
\* appends ends without an error, and its count and averages are those of
\* the file as it was when the call began.
C14_ReportTakesSnapshot ==
    \A p \in Procs :
        /\ pc[p] # "crash"
        /\ (pc[p] = "idle" /\ call[p].reported) =>
             LET atStart == generate_report(result[p].started)
                 printed == result[p].report
             IN  /\ printed.total = atStart.total
                 /\ printed.avg_ctr.n * atStart.avg_ctr.d
                        = atStart.avg_ctr.n * printed.avg_ctr.d
                 /\ printed.avg_eng.n * atStart.avg_eng.d
                        = atStart.avg_eng.n * printed.avg_eng.d

\* C19 as claimed: when the file did not exist at the start and no
\* append_metrics_row call is under way, the file is one header row followed
\* by one record for every completed call.
C19_OneHeaderEveryRecord ==
    ( /\ last = AbsentFile
      /\ \A p \in Procs : pc[p] \notin {"exists", "open_w", "header", "row"}
      /\ \E p \in Procs : call[p].done > 0 ) =>
        LET lines == metricsFile.lines
        IN  /\ Len(lines) = 1 + call[1].done + call[2].done
            /\ lines[1] = METRICS_HEADER
            /\ \A i \in 2..Len(lines) : lines[i] # METRICS_HEADER
            /\ \A p \in Procs : \A k \in 1..call[p].done :
                 \E i \in 2..Len(lines) : lines[i] = RowOf(p, k)

(***************************************************************************)
(* Properties of src/gen_content_optimization.py.                          *)
(***************************************************************************)
\* One pass over t from position i, character by character: the hashtags
\* met so far and the characters outside every hashtag.
RECURSIVE ScanTags(_, _, _, _, _)
ScanTags(t, i, inTag, tags, body) ==
    IF i > Len(t) THEN [tags |-> tags, body |-> body]
    ELSE IF inTag /\ t[i] \in WordChars
    THEN ScanTags(t, i + 1, TRUE,
                  [tags EXCEPT ![Len(tags)] = Append(@, t[i])], body)
    ELSE IF t[i] = "#" /\ i < Len(t) /\ t[i + 1] \in WordChars
    THEN ScanTags(t, i + 1, TRUE, Append(tags, <<"#">>), body)
    ELSE ScanTags(t, i + 1, FALSE, tags, Append(body, t[i]))

Scanned(t) == ScanTags(t, 1, FALSE, <<>>, <<>>)

RECURSIVE TrimLeft(_)
TrimLeft(t) ==
    IF t # <<>> /\ t[1] \in SpaceChars THEN TrimLeft(Tail(t)) ELSE t

RECURSIVE TrimRight(_)
TrimRight(t) ==
    IF t # <<>> /\ t[Len(t)] \in SpaceChars
    THEN TrimRight(SubSeq(t, 1, Len(t) - 1))
    ELSE t

\* the hashtags, each with one space in front
RECURSIVE Spaced(_)
Spaced(tags) ==
    IF tags = <<>> THEN <<>> ELSE <<" ">> \o Head(tags) \o Spaced(Tail(tags))

\* C9: limit_hashtags returns a text that holds more than max_tags hashtags
\* as its body with every hashtag stripped, followed by the first max_tags
\* hashtags of the text in their order (duplicates kept), and the hashtags
\* of the returned text are exactly those; a text that holds max_tags
\* hashtags or fewer is returned unchanged.
C9_LimitKeepsFirst ==
    (pc = "return" /\ call.fn = "limit_hashtags") =>
        LET scan == Scanned(call.text)
            first == SubSeq(scan.tags, 1, call.max_tags)
            body == TrimRight(TrimLeft(scan.body))
        IN  IF Len(scan.tags) <= call.max_tags
            THEN result.text = call.text
            ELSE /\ result.text = TrimLeft(body \o Spaced(first))
                 /\ Scanned(result.text).tags = first

\* a text with a body and two different hashtags, cut down to the first
C9_Witness ==
    /\ pc = "return"
    /\ call.fn = "limit_hashtags"
    /\ call.max_tags = 1
    /\ Len(Scanned(call.text).tags) = 2
    /\ Scanned(call.text).tags[1] # Scanned(call.text).tags[2]
    /\ TrimLeft(Scanned(call.text).body) # <<>>
    /\ Scanned(result.text).tags = <<Scanned(call.text).tags[1]>>

\* the number of hashtags of t, the number of words of t
HashtagCount(t) ==
    Cardinality({i \in 1..(Len(t) - 1) : t[i] = "#" /\ t[i + 1] \in WordChars})

WordCount(t) ==
    Cardinality({i \in 1..Len(t) :
                    /\ t[i] \notin SpaceChars
                    /\ i = 1 \/ t[i - 1] \in SpaceChars})

\* C10 as claimed: the output of optimize_content never holds more than
\* MAX_HASHTAGS hashtags.
C10_HashtagCap ==
    (pc = "return" /\ call.fn = "optimize_content") =>
        HashtagCount(result.text) <= MAX_HASHTAGS

\* C10 as amended: the output of optimize_content holds at most MAX_HASHTAGS
\* hashtags unless the text has fewer than MIN_WORDS words when its length
\* is clamped; then the padding adds two hashtags and the output holds at
\* most MAX_HASHTAGS + 2.
C10_HashtagCapButForPadding ==
    (pc = "return" /\ call.fn = "optimize_content") =>
        IF WordCount(result.steps.ensured) < MIN_WORDS
        THEN HashtagCount(result.text) <= MAX_HASHTAGS + 2
        ELSE HashtagCount(result.text) <= MAX_HASHTAGS

\* a post with more hashtags than the cap and words enough: the output holds
\* exactly MAX_HASHTAGS hashtags
C10_Witness ==
    /\ pc = "return"
    /\ call.fn = "optimize_content"
    /\ HashtagCount(call.text) > MAX_HASHTAGS
    /\ WordCount(result.steps.ensured) >= MIN_WORDS
    /\ HashtagCount(result.text) = MAX_HASHTAGS

\* C11 as claimed: the output of optimize_content has at least MIN_WORDS
\* words, and at most MAX_WORDS unless the padding pushed it over.
C11_WordCountInRange ==
    (pc = "return" /\ call.fn = "optimize_content") =>
        /\ WordCount(result.text) >= MIN_WORDS
        /\ \/ WordCount(result.text) <= MAX_WORDS
           \/ WordCount(result.steps.ensured) < MIN_WORDS

\* the upper half of C11 alone
C11_AtMostMaxWords ==
    (pc = "return" /\ call.fn = "optimize_content") =>
        WordCount(result.text) <= MAX_WORDS

\* C12: what clean_text returns has no whitespace at either end and no two
\* whitespace characters in a row; clean_text of it is the same text again;
\* for a value that is no str clean_text returns the empty string.
C12_CleanTextIdempotent ==
    (pc \in {"return", "again"} /\ call.fn = "clean_text") =>
        LET r == result.text
        IN  /\ r # <<>> => r[1] \notin SpaceChars /\ r[Len(r)] \notin SpaceChars
            /\ \A i \in 1..(Len(r) - 1) :
                 ~(r[i] \in SpaceChars /\ r[i + 1] \in SpaceChars)
            /\ pc = "again" => result.text = result.first
            /\ (pc = "return" /\ call.text = NotAStr) => r = <<>>

\* a text with whitespace at both ends and a run inside, cleaned twice
C12_Witness ==
    /\ pc = "again"
    /\ call.text = <<"\t", "a", " ", "\n", "a", " ">>
    /\ result.first = <<"a", " ", "a">>
    /\ result.text = <<"a", " ", "a">>

\* C15: in every row optimize_csv has been through, a grammar corrector that
\* failed left the cleaned text as it was, a sentiment estimator that failed
\* gave the polarity 0.0 and the label "Neutral" (the engagement score then
\* counts the words and hashtags alone), and optimize_content went on to add
\* its words and hashtags; the loop is through one row after the
\* other, and when it ends every row of the file has its values.
C15_FailuresDoNotAbort ==
    (call.fn = "optimize_csv" /\ pc \in {"rows", "return"}) =>
        /\ \A k \in 1..Len(result.rows) :
             LET r == result.rows[k]
             IN  /\ r.corrector = "raise" => r.steps.corrected = r.steps.cleaned
                 /\ r.estimate.exc =>
                      /\ r.original_sentiment_score = 0
                      /\ r.original_sentiment_label = "Neutral"
                 /\ r.estimate2.exc =>
                      /\ r.optimized_sentiment_score = 0
                      /\ r.optimized_sentiment_label = "Neutral"
                 /\ r.scoring.exc =>
                      r.engagement = 10 * WordCount(r.cleaned)
                                        + 500 * HashtagCount(r.cleaned)
                 /\ WordCount(r.optimized) > WordCount(r.cleaned)
                 /\ HashtagCount(r.optimized) >= MAX_HASHTAGS
        /\ pc = "rows" => Len(result.rows) = result.i - 1
        /\ (pc = "return" /\ result.status \in {"saved", "Failed to save CSV"}) =>
             Len(result.rows) = Len(call.A)

\* both capabilities fail in the first row, and the second row is processed
\* with both at work
C15_Witness ==
    /\ call.fn = "optimize_csv"
    /\ pc = "return"
    /\ result.status = "saved"
    /\ Len(result.rows) = 2
    /\ result.rows[1].cleaned # <<>>
    /\ result.rows[1].corrector = "raise"
    /\ result.rows[1].estimate.exc
    /\ result.rows[1].scoring.exc
    /\ result.rows[1].estimate2.exc
    /\ result.rows[2].corrector = "corrected"
    /\ ~result.rows[2].estimate.exc
    /\ result.rows[2].steps.corrected # result.rows[2].steps.cleaned

\* the positions of t where a hashtag starts, and the hashtag that starts at i
TagStarts(t) ==
    {i \in 1..(Len(t) - 1) : t[i] = "#" /\ t[i + 1] \in WordChars}

TagFrom(t, i) ==
    SubSeq(t, i, CHOOSE j \in (i + 1)..Len(t) :
                    /\ \A m \in (i + 1)..j : t[m] \in WordChars
                    /\ j = Len(t) \/ t[j + 1] \notin WordChars)

\* the hashtags of t, in lower case
LowerTags(t) == {Lower(TagFrom(t, i)) : i \in TagStarts(t)}

\* the hashtag of the i-th trending keyword
KeywordTag(i) == <<"#">> \o TRENDING_KEYWORDS[i]

\* C16: before its length is clamped the text holds exactly MAX_HASHTAGS
\* hashtags.  With k < MAX_HASHTAGS hashtags after the cap step, the text is
\* the text of that step with MAX_HASHTAGS - k hashtags appended: those of
\* the first trending keywords, in list order, whose hashtag is not in the
\* text in whatever case.  With k = MAX_HASHTAGS nothing is appended.
C16_ExactlyMaxHashtags ==
    (pc = "return" /\ call.fn = "optimize_content") =>
        LET limited == TrimLeft(result.steps.limited)
            ensured == result.steps.ensured
            k == Cardinality(TagStarts(limited))
            free == {i \in 1..Len(TRENDING_KEYWORDS) :
                        Lower(KeywordTag(i)) \notin LowerTags(limited)}
            chosen == {i \in free :
                        Cardinality({j \in free : j < i}) < MAX_HASHTAGS - k}
            tail == SubSeq(ensured, Len(limited) + 1, Len(ensured))
            at(i) == CHOOSE p \in TagStarts(tail) : TagFrom(tail, p) = KeywordTag(i)
        IN  /\ Cardinality(TagStarts(ensured)) = MAX_HASHTAGS
            /\ k = MAX_HASHTAGS => ensured = result.steps.limited
            /\ k < MAX_HASHTAGS =>
                 /\ SubSeq(ensured, 1, Len(limited)) = limited
                 /\ Cardinality(TagStarts(tail)) = MAX_HASHTAGS - k
                 /\ Cardinality(chosen) = MAX_HASHTAGS - k
                 /\ \A i \in chosen :
                      \E p \in TagStarts(tail) : TagFrom(tail, p) = KeywordTag(i)
                 /\ \A i \in chosen : \A j \in chosen : i < j => at(i) < at(j)

\* a post with the hashtag #ai: the hashtags of the second and the third
\* trending keyword are appended, the one of the first is not
C16_Witness ==
    /\ pc = "return"
    /\ call.fn = "optimize_content"
    /\ LowerTags(result.steps.limited) = {<<"#", "a", "i">>}
    /\ Cardinality(TagStarts(result.steps.limited)) = 1
    /\ LowerTags(result.steps.ensured) =
            {<<"#", "a", "i">>, Lower(KeywordTag(2)), Lower(KeywordTag(3))}

\* the words of t with one space between them: the characters of t that are
\* no whitespace, and a space for every run of whitespace between two words
Squeeze(t) ==
    LET solid == {i \in 1..Len(t) : t[i] \notin SpaceChars}
        final == CHOOSE i \in solid : \A j \in solid : j <= i
        Kept(i) == \/ t[i] \notin SpaceChars
                   \/ i > 1 /\ t[i - 1] \notin SpaceChars /\ i < final
        kept == SelectSeq([i \in 1..Len(t) |-> i], Kept)
    IN  IF solid = {} THEN <<>>
        ELSE [j \in 1..Len(kept) |->
                IF t[kept[j]] \in SpaceChars THEN " " ELSE t[kept[j]]]

\* C17: truncate_or_pad_words returns the first max_words words of a text of
\* more words, a space apart, with "..." on the last one, and no padding; a
\* text of fewer than min_words words with the first two trending hashtags
\* appended, and all its words; any other text as it is.  What it returns
\* has at most max_words words.
C17_TruncateOrPad ==
    (pc = "return" /\ call.fn = "truncate_or_pad_words") =>
        LET t == call.text
            s == Squeeze(t)
            IsGap(i) == s[i] = " "
            gaps == SelectSeq([i \in 1..Len(s) |-> i], IsGap)
            words == IF s = <<>> THEN 0 ELSE Len(gaps) + 1
        IN  /\ words > MAX_WORDS =>
                 result.text = SubSeq(s, 1, gaps[MAX_WORDS] - 1) \o <<".", ".", ".">>
            /\ words < MIN_WORDS =>
                 result.text = TrimRight(TrimLeft(
                    t \o <<" ">> \o TRENDING_HASHTAGS[1]
                      \o <<" ">> \o TRENDING_HASHTAGS[2]))
            /\ (MIN_WORDS <= words /\ words <= MAX_WORDS) => result.text = t
            /\ WordCount(result.text) <= MAX_WORDS

\* a text of MAX_WORDS + 1 words, two spaces apart, is cut to MAX_WORDS words
C17_Witness ==
    /\ pc = "return"
    /\ call.fn = "truncate_or_pad_words"
    /\ WordCount(call.text) = MAX_WORDS + 1
    /\ call.text[1] = "\t"
    /\ WordCount(result.text) = MAX_WORDS
    /\ SubSeq(result.text, Len(result.text) - 3, Len(result.text))
            = <<"w", ".", ".", ".">>

\* C18 as claimed: the output of optimize_content holds one of the
\* call-to-action phrases, in whatever case.
C18_CallToActionSurvives ==
    (pc = "return" /\ call.fn = "optimize_content") =>
        LET out == Lower(result.text)
        IN  \E phrase \in ctas :
                \E i \in 1..(Len(out) - Len(phrase) + 1) :
                    \A j \in 1..Len(phrase) : out[i + j - 1] = phrase[j]

====
